---- MODULE Spec2Model ----
(***************************************************************************)
(* Model of python/setup.py of qNoise: the build script that declares the  *)
(* pybind11 extension "qnoise._qnoise" and hands it to setuptools.setup.   *)
(*                                                                         *)
(* Python strings are modelled as sequences of one-character strings, so   *)
(* that comparisons, prefixes, suffixes and path splitting are computed    *)
(* and not assumed.                                                        *)
(***************************************************************************)
EXTENDS Integers, Sequences, FiniteSets, TLC

VARIABLES
    pc,              \* position of the interpreter in the script
    sys_platform,    \* value of sys.platform in this process
    pybind_include,  \* value returned by pybind11.get_include() in this process
    ext_modules,     \* the module-level list ext_modules (<<>> before line 5 ran)
    setup_calls,     \* keyword arguments of every setup(...) call of this process
    runs             \* log: one record per completed execution of the script

vars == <<pc, sys_platform, pybind_include, ext_modules, setup_calls, runs>>

----------------------------------------------------------------------------
(* Bounds *)

MaxPlatformLen == 5

MaxRuns == 2

----------------------------------------------------------------------------
(* Environment: the values sys.platform and pybind11.get_include() may take *)

\* "win32"
Win32 == <<"w", "i", "n", "3", "2">>

\* characters from which unknown platform identifiers are built
PlatformAlphabet == {"w", "i", "n", "3", "2"}

\* "linux", "darwin", "cygwin", "msys", "win64"
KnownPlatforms ==
    { <<"l", "i", "n", "u", "x">>,
      <<"d", "a", "r", "w", "i", "n">>,
      <<"c", "y", "g", "w", "i", "n">>,
      <<"m", "s", "y", "s">>,
      <<"w", "i", "n", "6", "4">> }

\* every identifier over the alphabet up to the bound (the empty one and
\* "win32" included), plus the identifiers CPython really reports
Platforms ==
    KnownPlatforms \cup UNION { [1..n -> PlatformAlphabet] : n \in 0..MaxPlatformLen }

\* the identifiers used when the script is executed several times:
\* "win32", "linux", "", "win64"
RunPlatforms ==
    { Win32, <<"l", "i", "n", "u", "x">>, <<>>, <<"w", "i", "n", "6", "4">> }

\* "/usr/include/pybind11", "C:/pybind11/include", "../cpp"
PybindIncludes ==
    { <<"/", "u", "s", "r", "/", "i", "n", "c", "l", "u", "d", "e", "/",
        "p", "y", "b", "i", "n", "d", "1", "1">>,
      <<"C", ":", "/", "p", "y", "b", "i", "n", "d", "1", "1", "/",
        "i", "n", "c", "l", "u", "d", "e">>,
      <<".", ".", "/", "c", "p", "p">> }

----------------------------------------------------------------------------
(* String and path functions of Python used to state the properties *)

\* str.startswith
StartsWith(s, p) == Len(p) <= Len(s) /\ SubSeq(s, 1, Len(p)) = p

\* str.endswith
EndsWith(s, x) == Len(x) <= Len(s) /\ SubSeq(s, Len(s) - Len(x) + 1, Len(s)) = x

\* position of the last occurrence of character c in s, 0 when absent (str.rfind + 1)
RFind(s, c) ==
    LET hits == { i \in 1..Len(s) : s[i] = c }
    IN  IF hits = {} THEN 0 ELSE CHOOSE i \in hits : \A j \in hits : j <= i

\* position of the first occurrence of character c in s, 0 when absent
Find(s, c) ==
    LET hits == { i \in 1..Len(s) : s[i] = c }
    IN  IF hits = {} THEN 0 ELSE CHOOSE i \in hits : \A j \in hits : i <= j

\* posixpath.dirname for relative paths: what precedes the last "/"
Dirname(path) ==
    LET k == RFind(path, "/") IN IF k = 0 THEN <<>> ELSE SubSeq(path, 1, k - 1)

\* posixpath.basename: what follows the last "/"
Basename(path) == SubSeq(path, RFind(path, "/") + 1, Len(path))

\* str.split(c)
RECURSIVE Split(_, _)
Split(s, c) ==
    LET k == Find(s, c)
    IN  IF k = 0 THEN <<s>>
        ELSE <<SubSeq(s, 1, k - 1)>> \o Split(SubSeq(s, k + 1, Len(s)), c)

Range(f) == { f[i] : i \in DOMAIN f }

\* a flag that selects the C++ standard: "-std=..." (gcc/clang) or "/std:..." (MSVC)
IsStdFlag(f) ==
    \/ StartsWith(f, <<"-", "s", "t", "d", "=">>)
    \/ StartsWith(f, <<"/", "s", "t", "d", ":">>)

\* a flag that selects the optimization level: "-O..." (gcc/clang) or "/O..." (MSVC)
IsOptFlag(f) ==
    \/ StartsWith(f, <<"-", "O">>)
    \/ StartsWith(f, <<"/", "O">>)

----------------------------------------------------------------------------
(* The extension descriptor, setup.py lines 5-13 *)

\* faulty variant: the module is not placed in the package namespace ("_qnoise")
ModuleName_Bare == <<"_", "q", "n", "o", "i", "s", "e">>

\* line 7: "qnoise._qnoise"
ModuleName == <<"q", "n", "o", "i", "s", "e", ".", "_", "q", "n", "o", "i", "s", "e">>

\* faulty variant: the native core is looked up next to the binding layer
\* ["qnoise/qNoisePy.cpp", "qnoise/qNoise.cpp"]
Sources_LocalCore ==
    << <<"q", "n", "o", "i", "s", "e", "/",
         "q", "N", "o", "i", "s", "e", "P", "y", ".", "c", "p", "p">>,
       <<"q", "n", "o", "i", "s", "e", "/",
         "q", "N", "o", "i", "s", "e", ".", "c", "p", "p">> >>

\* line 8: sources=["qnoise/qNoisePy.cpp", "../cpp/qNoise.cpp"]
Sources ==
    << <<"q", "n", "o", "i", "s", "e", "/",
         "q", "N", "o", "i", "s", "e", "P", "y", ".", "c", "p", "p">>,
       <<".", ".", "/", "c", "p", "p", "/",
         "q", "N", "o", "i", "s", "e", ".", "c", "p", "p">> >>

\* faulty variant: the native-core header directory is given as "cpp"
IncludeDirs_WrongCore(inc) == << inc, <<"c", "p", "p">> >>

\* faulty variant: the pybind11 header location is forgotten
IncludeDirs_NoPybind(inc) == << <<".", ".", "/", "c", "p", "p">> >>

\* line 9: include_dirs=[pybind11.get_include(), "../cpp"]
IncludeDirs(inc) == << inc, <<".", ".", "/", "c", "p", "p">> >>

\* line 10: language="c++"
Language == <<"c", "+", "+">>

\* faulty variant: the Unix list lacks "-fPIC"
ExtraCompileArgs_DropFPIC(platform) ==
    IF platform # Win32
    THEN << <<"-", "s", "t", "d", "=", "c", "+", "+", "1", "1">>,
            <<"-", "O", "3">>,
            <<"-", "W", "a", "l", "l">> >>
    ELSE << <<"/", "s", "t", "d", ":", "c", "+", "+", "1", "4">>,
            <<"/", "O", "2">> >>

\* faulty variant: the Windows list in the other order
ExtraCompileArgs_WinSwapped(platform) ==
    IF platform # Win32
    THEN << <<"-", "s", "t", "d", "=", "c", "+", "+", "1", "1">>,
            <<"-", "O", "3">>,
            <<"-", "W", "a", "l", "l">>,
            <<"-", "f", "P", "I", "C">> >>
    ELSE << <<"/", "O", "2">>,
            <<"/", "s", "t", "d", ":", "c", "+", "+", "1", "4">> >>

\* faulty variant: Windows recognised by sys.platform.startswith("win")
ExtraCompileArgs_Prefix(platform) ==
    IF ~StartsWith(platform, <<"w", "i", "n">>)
    THEN << <<"-", "s", "t", "d", "=", "c", "+", "+", "1", "1">>,
            <<"-", "O", "3">>,
            <<"-", "W", "a", "l", "l">>,
            <<"-", "f", "P", "I", "C">> >>
    ELSE << <<"/", "s", "t", "d", ":", "c", "+", "+", "1", "4">>,
            <<"/", "O", "2">> >>

\* line 11: extra_compile_args=[...] if sys.platform != "win32" else [...]
ExtraCompileArgs(platform) ==
    IF platform # Win32
    THEN << <<"-", "s", "t", "d", "=", "c", "+", "+", "1", "1">>,
            <<"-", "O", "3">>,
            <<"-", "W", "a", "l", "l">>,
            <<"-", "f", "P", "I", "C">> >>
    ELSE << <<"/", "s", "t", "d", ":", "c", "+", "+", "1", "4">>,
            <<"/", "O", "2">> >>

\* lines 6-12: the Extension object, as the attributes setuptools stores
Extension(name, sources, include_dirs, language, extra_compile_args) ==
    [ name               |-> name,
      sources            |-> sources,
      include_dirs       |-> include_dirs,
      language           |-> language,
      extra_compile_args |-> extra_compile_args ]

\* faulty variant: Windows is recognised by the drive letter of the pybind11 path
ExtModules_ByIncludePath(platform, inc) ==
    << Extension(ModuleName, Sources, IncludeDirs(inc), Language,
                 ExtraCompileArgs(IF StartsWith(inc, <<"C", ":">>)
                                  THEN Win32 ELSE <<"l", "i", "n", "u", "x">>)) >>

\* faulty variant: on Windows the native-core header directory is written "..\cpp"
ExtModules_WinSeparator(platform, inc) ==
    << Extension(ModuleName, Sources,
                 IF platform = Win32
                 THEN << inc, <<".", ".", "\\", "c", "p", "p">> >>
                 ELSE IncludeDirs(inc),
                 Language, ExtraCompileArgs(platform)) >>

\* lines 5-13: the value bound to ext_modules
ExtModules(platform, inc) ==
    << Extension(ModuleName, Sources, IncludeDirs(inc), Language,
                 ExtraCompileArgs(platform)) >>

----------------------------------------------------------------------------
(* The script as a state machine *)

\* the process before the first statement, for any platform and pybind11 location
Init ==
    /\ pc = "import"
    /\ sys_platform \in Platforms
    /\ pybind_include \in PybindIncludes
    /\ ext_modules = <<>>
    /\ setup_calls = <<>>
    /\ runs = <<>>

\* the same, for the identifiers used when the script is executed several times
InitRuns ==
    /\ pc = "import"
    /\ sys_platform \in RunPlatforms
    /\ pybind_include \in PybindIncludes
    /\ ext_modules = <<>>
    /\ setup_calls = <<>>
    /\ runs = <<>>

\* lines 1-3: the three imports
ImportModules ==
    /\ pc = "import"
    /\ pc' = "ext_modules"
    /\ UNCHANGED <<sys_platform, pybind_include, ext_modules, setup_calls, runs>>

\* lines 5-13: ext_modules = [Extension(...)]
BuildExtModules ==
    /\ pc = "ext_modules"
    /\ ext_modules' = ExtModules(sys_platform, pybind_include)
    /\ pc' = "setup"
    /\ UNCHANGED <<sys_platform, pybind_include, setup_calls, runs>>

\* faulty variant: setup() is called without the extension list
CallSetup_NoExtensions ==
    /\ pc = "setup"
    /\ setup_calls' = Append(setup_calls, [ext_modules |-> <<>>, zip_safe |-> FALSE])
    /\ runs' = Append(runs, [platform       |-> sys_platform,
                             pybind_include |-> pybind_include,
                             ext_modules    |-> ext_modules])
    /\ pc' = "done"
    /\ UNCHANGED <<sys_platform, pybind_include, ext_modules>>

\* line 15: setup(ext_modules=ext_modules, zip_safe=False), then the script ends
CallSetup ==
    /\ pc = "setup"
    /\ setup_calls' = Append(setup_calls, [ext_modules |-> ext_modules, zip_safe |-> FALSE])
    /\ runs' = Append(runs, [platform       |-> sys_platform,
                             pybind_include |-> pybind_include,
                             ext_modules    |-> ext_modules])
    /\ pc' = "done"
    /\ UNCHANGED <<sys_platform, pybind_include, ext_modules>>

\* the build process executes the script again, in a fresh interpreter
Rerun ==
    /\ pc = "done"
    /\ Len(runs) < MaxRuns
    /\ pc' = "import"
    /\ sys_platform' \in RunPlatforms
    /\ pybind_include' \in PybindIncludes
    /\ ext_modules' = <<>>
    /\ setup_calls' = <<>>
    /\ UNCHANGED runs

Next == ImportModules \/ BuildExtModules \/ CallSetup

Spec == Init /\ [][Next]_vars

NextRuns == ImportModules \/ BuildExtModules \/ CallSetup \/ Rerun

SpecRuns == InitRuns /\ [][NextRuns]_vars

\* the descriptor exists: line 5-13 has run
Built == ext_modules # <<>>

----------------------------------------------------------------------------
(* Properties *)

\* the extension entry built by this run
Ext == ext_modules[1]

\* C1: for every platform identifier other than "win32", the flag list of the
\* extension is exactly ["-std=c++11", "-O3", "-Wall", "-fPIC"], in that order.
C1_UnixFlagsExact ==
    (Built /\ sys_platform # <<"w", "i", "n", "3", "2">>) =>
        Ext.extra_compile_args =
            << <<"-", "s", "t", "d", "=", "c", "+", "+", "1", "1">>,
               <<"-", "O", "3">>,
               <<"-", "W", "a", "l", "l">>,
               <<"-", "f", "P", "I", "C">> >>

\* a run on "linux" whose descriptor has been built
C1_Witness ==
    /\ Built
    /\ sys_platform = <<"l", "i", "n", "u", "x">>
    /\ Len(Ext.extra_compile_args) = 4

\* C2: for the platform identifier "win32", the flag list of the extension is
\* exactly ["/std:c++14", "/O2"], in that order.
C2_WindowsFlagsExact ==
    (Built /\ sys_platform = <<"w", "i", "n", "3", "2">>) =>
        Ext.extra_compile_args =
            << <<"/", "s", "t", "d", ":", "c", "+", "+", "1", "4">>,
               <<"/", "O", "2">> >>

\* a run on "win32" whose descriptor has been built
C2_Witness ==
    /\ Built
    /\ sys_platform = <<"w", "i", "n", "3", "2">>
    /\ Len(Ext.extra_compile_args) = 2

\* C3: on every platform the source list has exactly two, distinct, paths: one
\* is the file qNoisePy.cpp in the directory qnoise, the other the file
\* qNoise.cpp in the directory ../cpp.
C3_TwoSources ==
    Built =>
        /\ Len(Ext.sources) = 2
        /\ Ext.sources[1] # Ext.sources[2]
        /\ \E i, j \in 1..2 :
            /\ i # j
            /\ EndsWith(Ext.sources[i],
                        <<"q", "N", "o", "i", "s", "e", "P", "y", ".", "c", "p", "p">>)
            /\ EndsWith(Ext.sources[j],
                        <<"q", "N", "o", "i", "s", "e", ".", "c", "p", "p">>)
            /\ Basename(Ext.sources[i]) =
                   <<"q", "N", "o", "i", "s", "e", "P", "y", ".", "c", "p", "p">>
            /\ Dirname(Ext.sources[i]) = <<"q", "n", "o", "i", "s", "e">>
            /\ Basename(Ext.sources[j]) =
                   <<"q", "N", "o", "i", "s", "e", ".", "c", "p", "p">>
            /\ Dirname(Ext.sources[j]) = <<".", ".", "/", "c", "p", "p">>

\* a built descriptor on a platform that is neither Windows nor a known Unix
C3_Witness ==
    /\ Built
    /\ sys_platform = <<"w", "i", "n">>
    /\ Len(Ext.sources) = 2

\* C4: on every platform the module identifier is "qnoise._qnoise", a dotted
\* name of a non-empty package part "qnoise" and a non-empty module part "_qnoise".
C4_ModuleName ==
    Built =>
        LET parts == Split(Ext.name, ".")
        IN  /\ Ext.name = <<"q", "n", "o", "i", "s", "e", ".",
                            "_", "q", "n", "o", "i", "s", "e">>
            /\ Len(parts) = 2
            /\ parts[1] = <<"q", "n", "o", "i", "s", "e">>
            /\ parts[2] = <<"_", "q", "n", "o", "i", "s", "e">>
            /\ parts[1] # <<>>
            /\ parts[2] # <<>>

\* a built descriptor on "darwin", its name holding a dot
C4_Witness ==
    /\ Built
    /\ sys_platform = <<"d", "a", "r", "w", "i", "n">>
    /\ Find(Ext.name, ".") > 0

\* C5: on every platform the include list has exactly two entries: the
\* pybind11 header location, then the native-core header directory "../cpp".
C5_TwoIncludeDirs ==
    Built =>
        /\ Len(Ext.include_dirs) = 2
        /\ Ext.include_dirs[1] = pybind_include
        /\ Ext.include_dirs[2] = <<".", ".", "/", "c", "p", "p">>

\* a built descriptor whose pybind11 location differs from "../cpp"
C5_Witness ==
    /\ Built
    /\ pybind_include # <<".", ".", "/", "c", "p", "p">>
    /\ Len(Ext.include_dirs) = 2

\* C6: the flag list is a function of the platform identifier alone: two runs
\* with the same identifier got the same list whatever else differed, and for
\* every identifier, unknown and empty ones included, building the descriptor
\* is possible and yields a non-empty list of flags.
C6_StaticLookup ==
    /\ \A i, j \in DOMAIN runs :
           runs[i].platform = runs[j].platform =>
               runs[i].ext_modules[1].extra_compile_args =
                   runs[j].ext_modules[1].extra_compile_args
    /\ pc = "ext_modules" => ENABLED BuildExtModules
    /\ \A i \in DOMAIN runs :
           LET flags == runs[i].ext_modules[1].extra_compile_args
           IN  /\ DOMAIN flags = 1..Len(flags)
               /\ Len(flags) > 0
               /\ \A k \in DOMAIN flags : Len(flags[k]) > 0

\* two completed runs with the same platform identifier and different
\* pybind11 locations, one of them with the empty identifier
C6_Witness ==
    /\ Len(runs) = 2
    /\ runs[1].platform = runs[2].platform
    /\ runs[1].platform = <<>>
    /\ runs[1].pybind_include # runs[2].pybind_include

\* C7: a run declares exactly one extension entry and calls setup exactly
\* once, after the descriptor is built; setup receives the descriptor as it
\* is, and the descriptor is never changed once built.
C7_SetupOnce ==
    /\ [](/\ Len(ext_modules) <= 1
          /\ Len(setup_calls) <= 1
          /\ pc \in {"setup", "done"} => Len(ext_modules) = 1
          /\ pc = "done" => Len(setup_calls) = 1
          /\ pc # "done" => setup_calls = <<>>
          /\ setup_calls # <<>> =>
                /\ Built
                /\ setup_calls[1].ext_modules = ext_modules
                /\ setup_calls[1].ext_modules =
                       ExtModules(sys_platform, pybind_include))
    /\ [][Built => ext_modules' = ext_modules]_vars
    /\ [][setup_calls' # setup_calls => (Built /\ pc = "setup")]_vars

\* the end of a run: setup has been called with the descriptor
C7_Witness ==
    /\ pc = "done"
    /\ Len(setup_calls) = 1
    /\ Len(setup_calls[1].ext_modules) = 1

\* C8: the platform identifier influences only the flag list: two runs with
\* the same pybind11 location, one on "win32" and one elsewhere, have the same
\* module name, source list, include list and language tag "c++".
C8_OnlyFlagsDepend ==
    \A i, j \in DOMAIN runs :
        (/\ runs[i].pybind_include = runs[j].pybind_include
         /\ runs[i].platform = <<"w", "i", "n", "3", "2">>
         /\ runs[j].platform # <<"w", "i", "n", "3", "2">>) =>
            LET a == runs[i].ext_modules[1]
                b == runs[j].ext_modules[1]
            IN  /\ a.name = b.name
                /\ a.sources = b.sources
                /\ a.include_dirs = b.include_dirs
                /\ a.language = b.language
                /\ a.language = <<"c", "+", "+">>

\* a "win32" run and a "linux" run with the same pybind11 location, whose
\* flag lists differ
C8_Witness ==
    /\ Len(runs) = 2
    /\ runs[1].platform = <<"w", "i", "n", "3", "2">>
    /\ runs[2].platform = <<"l", "i", "n", "u", "x">>
    /\ runs[1].pybind_include = runs[2].pybind_include
    /\ runs[1].ext_modules[1].extra_compile_args #
           runs[2].ext_modules[1].extra_compile_args

\* the two predefined lists, as the interface names them
UnixList ==
    << <<"-", "s", "t", "d", "=", "c", "+", "+", "1", "1">>,
       <<"-", "O", "3">>,
       <<"-", "W", "a", "l", "l">>,
       <<"-", "f", "P", "I", "C">> >>

WindowsList ==
    << <<"/", "s", "t", "d", ":", "c", "+", "+", "1", "4">>,
       <<"/", "O", "2">> >>

\* C9: the selected list is one of the two predefined lists, never empty,
\* never a mixture; the lists share no flag; a selection has exactly one
\* standard flag and exactly one optimization flag; the Windows list is
\* selected exactly when the identifier is "win32".
C9_OneOfTwoLists ==
    Built =>
        LET flags == Ext.extra_compile_args
        IN  /\ flags \in {UnixList, WindowsList}
            /\ flags # <<>>
            /\ Range(UnixList) \cap Range(WindowsList) = {}
            /\ Cardinality({ k \in DOMAIN flags : IsStdFlag(flags[k]) }) = 1
            /\ Cardinality({ k \in DOMAIN flags : IsOptFlag(flags[k]) }) = 1
            /\ (flags = WindowsList) <=> (sys_platform = <<"w", "i", "n", "3", "2">>)
            /\ (flags = UnixList) <=> (sys_platform # <<"w", "i", "n", "3", "2">>)

\* a built descriptor on "win64", which is not "win32" but begins like it
C9_Witness ==
    /\ Built
    /\ sys_platform = <<"w", "i", "n", "6", "4">>
    /\ Ext.extra_compile_args # <<>>

\* C10: on every platform the directory of the native-core source path
\* "../cpp/qNoise.cpp" is one of the include directories.
C10_CoreDirIncluded ==
    Built =>
        /\ Ext.sources[2] = <<".", ".", "/", "c", "p", "p", "/",
                              "q", "N", "o", "i", "s", "e", ".", "c", "p", "p">>
        /\ Dirname(Ext.sources[2]) \in Range(Ext.include_dirs)

\* a built descriptor on "cygwin" whose pybind11 location is not "../cpp", so
\* that the directory is found in the fixed entry
C10_Witness ==
    /\ Built
    /\ sys_platform = <<"c", "y", "g", "w", "i", "n">>
    /\ pybind_include = <<"/", "u", "s", "r", "/", "i", "n", "c", "l", "u", "d", "e", "/",
                          "p", "y", "b", "i", "n", "d", "1", "1">>
    /\ Dirname(Ext.sources[2]) # <<>>

====
